---------------------------- MODULE Spec2Model ----------------------------
(***************************************************************************)
(* State-machine model of the Omniversal Kernel (src/omniversal-kernel.py).*)
(*                                                                         *)
(* The kernel is an asyncio program: one event-loop thread, coroutines     *)
(* that run atomically between suspension points.  The suspension points   *)
(* of the source are the `await asyncio.gather(...)` calls (the parent     *)
(* waits until every child task has run) and `await asyncio.sleep(0.1)`    *)
(* inside sync_all.  Every action below is one such atomic block.          *)
(*                                                                         *)
(* Objects with identity (Layer instances) live in `heap`, a function from *)
(* object ids to records; lists hold ids, so two lists can share one       *)
(* instance as in Python.  The k-th initialize_all_layers call names the   *)
(* instance of variant i  6*(k-1)+i, whatever order the tasks ran in.      *)
(*                                                                         *)
(* Time: datetime.now() reads `clock`.  Only asyncio.sleep advances the    *)
(* clock, by the least amount the sleep guarantees (SleepTicks); all other *)
(* code takes zero time.  This is the least favourable case for any        *)
(* "strictly later" statement and assumes a wall clock that is not set     *)
(* back.                                                                   *)
(*                                                                         *)
(* Left out: the float-valued valuation arithmetic inside the result       *)
(* records (regional multipliers, resonance), Layer.metadata/version       *)
(* contents and logging.  Counters and every field a phase reads or        *)
(* writes are kept.                                                        *)
(***************************************************************************)
EXTENDS Integers, Sequences, FiniteSets, TLC

(* ----------------------------- bounds ---------------------------------- *)
\* client calls explored per behaviour
MaxCalls == 3
\* largest explicit `count` a client passes to deliver_artifacts_parallel
MaxCount == 1
\* child tasks of gather groups that may be started out of creation order
MaxReorder == 1
\* calls the monitoring task makes while the kernel runs
MaxReads == 1

(* ------------------------- program constants --------------------------- *)
\* deliver_artifacts_parallel(self, count: int = 10)
DefaultCount == 10
\* start_main_infinite: deliver_artifacts_parallel(count=20)
RunCount == 20
\* list(LayerType)[i % 5]
RoundRobinModulus == 5
\* CRMAnalyticsLayer.total_architects = 38_000_000
TotalArchitects == 38000000
\* asyncio.sleep(0.1): one clock tick is the sleep's minimum duration
SleepTicks == 1

\* LayerType members in declaration order: list(LayerType)
LayerType ==
  << "tatras_ai_ml", "real_estate_tokenization", "crm_analytics",
     "zakat_automation", "nft_achievement", "auction_preparation" >>

\* DeploymentStatus values
DeploymentStatus == {"pending", "deploying", "active", "syncing", "error"}

\* TatrasAIMLLayer.initialize: self.models = [...]
TatrasModels ==
  << "property_valuation_model", "architect_behavior_model",
     "zakat_calculation_model", "achievement_prediction_model" >>

\* HelixBitcoinBridge.regional_multipliers keys
SupportedLocations == {"tokyo", "london"}

\* location strings a client passes to convert_btc_to_bricks
Locations == {"tokyo", "London", "paris"}

\* btc_amount values a client passes to convert_btc_to_bricks
BtcAmounts == {2}

\* str.lower() on the location strings above
Lower(s) ==
  CASE s = "Tokyo" -> "tokyo"
    [] s = "London" -> "london"
    [] OTHER -> s

\* str.upper() on the lower-cased location strings
Upper(s) ==
  CASE s = "tokyo" -> "TOKYO"
    [] s = "london" -> "LONDON"
    [] s = "paris" -> "PARIS"
    [] OTHER -> s

\* the phases of start_main_infinite, in the order of its body
PhaseOrder ==
  << "Initialize", "Deploy", "Sync", "Deliver", "RunOperations", "Snapshot" >>

\* the six coroutines appended to `operations` in run_unified_operations
Operations ==
  << "predict", "tokenize_property", "process_architect_activity",
     "calculate_zakat", "mint_achievement_nft", "prepare_for_auction" >>

(* ------------------------------ state ---------------------------------- *)
VARIABLES
  tatras_ai_ml,         \* [models, predictions_count]
  real_estate,          \* [tokenized_properties, total_value]
  crm_analytics,        \* [total_architects, active_architects, analytics_processed]
  zakat_automation,     \* [total_zakat_processed, calculations_count]
  nft_achievement,      \* [nfts_minted, achievements_tracked]
  auction_preparation,  \* [assets_prepared, total_liquidity]
  helix_bitcoin_bridge, \* [tokenized_btc_bricks, total_btc_value]
  deployment_engine,    \* [deployment_count, active_deployments]
  artifact_delivery,    \* [artifacts, delivery_count]
  dashboard,            \* [metrics_history]
  layers,               \* OmniversalKernel.layers: sequence of heap indices
  is_running,           \* OmniversalKernel.is_running
  heap,                 \* every Layer instance created so far, by id
  clock,                \* datetime.now()
  frame,                \* the kernel coroutine the client awaits
  client,               \* outcome of the client's last direct bridge call
  calls,                \* number of client calls made
  reorders              \* child tasks started out of creation order so far

domain == << tatras_ai_ml, real_estate, crm_analytics, zakat_automation,
             nft_achievement, auction_preparation >>
systems == << deployment_engine, artifact_delivery, dashboard >>
kernel == << layers, is_running, heap >>
vars == << domain, helix_bitcoin_bridge, systems, kernel, clock, frame,
           client, calls, reorders >>

(* ------------------------------ helpers -------------------------------- *)
Min(S) == CHOOSE x \in S : \A y \in S : x <= y
Max(a, b) == IF a >= b THEN a ELSE b
Range(f) == { f[x] : x \in DOMAIN f }

\* the coroutine frame before any call
IdleFrame ==
  [ op |-> "idle", phase |-> "none", pc |-> "idle", count |-> 0,
    pending |-> {}, order |-> << >>, results |-> << >>, errors |-> << >>,
    base |-> 0, list |-> << >>, idx |-> 0, wake_at |-> 0, synced |-> << >>,
    batch |-> << >>, pre |-> << >>, parts |-> << >>,
    error |-> "", result |-> << >> ]

\* the counters a snapshot or a status report reads
Counters ==
  [ predictions_count |-> tatras_ai_ml.predictions_count,
    tokenized_properties |-> real_estate.tokenized_properties,
    analytics_processed |-> crm_analytics.analytics_processed,
    calculations_count |-> zakat_automation.calculations_count,
    nfts_minted |-> nft_achievement.nfts_minted,
    assets_prepared |-> auction_preparation.assets_prepared,
    tokenized_btc_bricks |-> helix_bitcoin_bridge.tokenized_btc_bricks,
    deployment_count |-> deployment_engine.deployment_count,
    delivery_count |-> artifact_delivery.delivery_count ]

Init ==
  /\ tatras_ai_ml = [models |-> << >>, predictions_count |-> 0]
  /\ real_estate = [tokenized_properties |-> 0, total_value |-> 0]
  /\ crm_analytics = [total_architects |-> TotalArchitects,
                      active_architects |-> 0, analytics_processed |-> 0]
  /\ zakat_automation = [total_zakat_processed |-> 0, calculations_count |-> 0]
  /\ nft_achievement = [nfts_minted |-> 0, achievements_tracked |-> 0]
  /\ auction_preparation = [assets_prepared |-> 0, total_liquidity |-> 0]
  /\ helix_bitcoin_bridge = [tokenized_btc_bricks |-> 0, total_btc_value |-> 0]
  /\ deployment_engine = [deployment_count |-> 0, active_deployments |-> << >>]
  /\ artifact_delivery = [artifacts |-> << >>, delivery_count |-> 0]
  /\ dashboard = [metrics_history |-> << >>]
  /\ layers = << >>
  /\ is_running = FALSE
  /\ heap = << >>
  /\ clock = 0
  /\ frame = IdleFrame
  /\ client = [op |-> "none", location |-> "", btc_amount |-> 0,
               error |-> "", result |-> << >>, pre |-> << >>]
  /\ calls = 0
  /\ reorders = 0


(* --------------------------- asyncio.gather ---------------------------- *)
\* The child tasks of a gather group that may take their step now.  The
\* event loop starts ready tasks in creation order; up to MaxReorder times
\* per behaviour a task is also allowed to overtake the one queued before
\* it, so that completion order and declaration order can differ.
Runnable(f) ==
  IF f.pending = {} THEN {}
  ELSE IF reorders < MaxReorder
       THEN {i \in f.pending : Cardinality({j \in f.pending : j < i}) <= 1}
       ELSE {Min(f.pending)}

\* bookkeeping of one child step: i leaves the pending set with result r
ChildDone(f, i, r) ==
  [f EXCEPT !.pending = @ \ {i},
            !.order = Append(@, i),
            !.results = @ @@ (i :> r)]

\* bookkeeping of one child step that raised err
ChildRaised(f, i, err) ==
  [f EXCEPT !.pending = @ \ {i},
            !.order = Append(@, i),
            !.errors = @ @@ (i :> err)]

Overtake(f, i) ==
  reorders' = IF i = Min(f.pending) THEN reorders ELSE reorders + 1

\* results of a finished group, in the order the awaitables were passed
Gathered(f, n) == [i \in 1..n |-> f.results[i]]

\* the exception a finished group propagates: the first one raised
FirstError(f) ==
  LET k == Min({j \in 1..Len(f.order) : f.order[j] \in DOMAIN f.errors})
  IN  f.errors[f.order[k]]

(* ------------------------- call and return ----------------------------- *)
\* faulty variant: the run goes from Deploy straight to Deliver
NextPhase_SkipSync(p) ==
  IF p = "Deploy" THEN "Deliver"
  ELSE LET k == CHOOSE j \in 1..Len(PhaseOrder) : PhaseOrder[j] = p
       IN  PhaseOrder[k + 1]

\* faulty variant: after Sync the run goes back to Deploy once more, a
\* deploy -> sync cycle repeated
NextPhase_CycleAgain(p) ==
  IF p = "Sync" /\ deployment_engine.deployment_count <= Len(LayerType)
  THEN "Deploy"
  ELSE LET k == CHOOSE j \in 1..Len(PhaseOrder) : PhaseOrder[j] = p
       IN  PhaseOrder[k + 1]

\* the phase after p in the body of start_main_infinite
NextPhase(p) ==
  LET k == CHOOSE j \in 1..Len(PhaseOrder) : PhaseOrder[j] = p
  IN  PhaseOrder[k + 1]

\* the first kernel method a client call executes
EntryPhase(op) ==
  CASE op = "initialize_all_layers" -> "Initialize"
    [] op = "deploy_perpetual" -> "Deploy"
    [] op = "sync_layers" -> "Sync"
    [] op = "deliver_artifacts_parallel" -> "Deliver"
    [] op = "run_unified_operations" -> "RunOperations"
    [] op = "start_main_infinite" -> "Initialize"

\* a kernel method starts its body; `pre` only records, for the properties
\* below, what the state was at that moment
Enter(f, g) ==
  [g EXCEPT !.pre = [ counters |-> Counters,
                      last_updated |-> [i \in 1..Len(g.list) |->
                                          heap[g.list[i]].last_updated] ]]

\* a kernel method returns r: start_main_infinite goes on to its next
\* statement, a direct call hands r to the client
Return(f, r) ==
  IF f.op = "start_main_infinite"
  THEN [f EXCEPT !.phase = NextPhase(f.phase), !.pc = "call",
                 !.parts = @ @@ (f.phase :> r)]
  ELSE [f EXCEPT !.pc = "done", !.result = << r >>]

\* a kernel method raises err: nothing in the kernel catches it
Raise(f, err) ==
  [f EXCEPT !.pc = "failed", !.error = err, !.result = << >>]

Free == frame.pc \in {"idle", "done", "failed"}

KernelMethods ==
  { "initialize_all_layers", "deploy_perpetual", "sync_layers",
    "deliver_artifacts_parallel", "run_unified_operations" }

\* count arguments: explicit ones, and the default of an omitted one
CountArgs == (0 .. MaxCount) \cup {DefaultCount}

\* the client awaits one kernel method on the shared kernel
Call(op, count) ==
  /\ Free
  /\ calls < MaxCalls
  /\ calls' = calls + 1
  /\ frame' = [IdleFrame EXCEPT !.op = op, !.phase = EntryPhase(op),
                                !.pc = "call", !.count = count]
  /\ UNCHANGED << domain, helix_bitcoin_bridge, systems, kernel, clock,
                  client, reorders >>

(* --------------------- initialize_all_layers --------------------------- *)
\* faulty variant: initialize() hands out the Layer in PENDING
NewLayer_Pending(i) ==
  [ layer_type |-> LayerType[i], version |-> "1.0.0",
    status |-> "pending", last_updated |-> clock ]

\* <Variant>.initialize(): the Layer instance one variant builds
NewLayer(i) ==
  [ layer_type |-> LayerType[i], version |-> "1.0.0",
    status |-> "active", last_updated |-> clock ]

\* initialization_tasks = [...]; await asyncio.gather(...)
InitStart ==
  /\ frame.phase = "Initialize" /\ frame.pc = "call"
  /\ frame' = Enter(frame, [frame EXCEPT !.pc = "gather",
                              !.base = Cardinality(DOMAIN heap),
                              !.pending = 1..Len(LayerType),
                              !.order = << >>, !.results = << >>,
                              !.errors = << >>])
  /\ UNCHANGED << domain, helix_bitcoin_bridge, systems, kernel, clock,
                  client, calls, reorders >>

\* faulty variant: TatrasAIMLLayer.initialize() also zeroes predictions_count
InitTask_ResetsCounter(i) ==
  /\ frame.phase = "Initialize" /\ frame.pc = "gather"
  /\ i \in Runnable(frame)
  /\ Overtake(frame, i)
  /\ heap' = heap @@ (frame.base + i :> NewLayer(i))
  /\ tatras_ai_ml' = IF i = 1 THEN [tatras_ai_ml EXCEPT !.models = TatrasModels,
                                                        !.predictions_count = 0]
                     ELSE tatras_ai_ml
  /\ frame' = ChildDone(frame, i, frame.base + i)
  /\ UNCHANGED << real_estate, crm_analytics, zakat_automation,
                  nft_achievement, auction_preparation, helix_bitcoin_bridge,
                  systems, layers, is_running, clock, client, calls >>

\* one <Variant>.initialize() task
InitTask(i) ==
  /\ frame.phase = "Initialize" /\ frame.pc = "gather"
  /\ i \in Runnable(frame)
  /\ Overtake(frame, i)
  /\ heap' = heap @@ (frame.base + i :> NewLayer(i))
  /\ tatras_ai_ml' = IF i = 1 THEN [tatras_ai_ml EXCEPT !.models = TatrasModels]
                     ELSE tatras_ai_ml
  /\ frame' = ChildDone(frame, i, frame.base + i)
  /\ UNCHANGED << real_estate, crm_analytics, zakat_automation,
                  nft_achievement, auction_preparation, helix_bitcoin_bridge,
                  systems, layers, is_running, clock, client, calls >>

\* faulty variant: the registry is filled in the order the tasks completed
InitCollect_CompletionOrder(f) ==
  [k \in 1..Len(LayerType) |-> f.results[f.order[k]]]

\* the registry initialize_all_layers stores from the gathered results
InitCollect(f) == Gathered(f, Len(LayerType))

\* self.layers = await asyncio.gather(...); return self.layers
InitJoin ==
  /\ frame.phase = "Initialize" /\ frame.pc = "gather" /\ frame.pending = {}
  /\ layers' = InitCollect(frame)
  /\ frame' = Return(frame, InitCollect(frame))
  /\ UNCHANGED << domain, helix_bitcoin_bridge, systems, is_running, heap,
                  clock, client, calls, reorders >>


(* ------------------------- deploy_perpetual ---------------------------- *)
\* faulty variant: deploy records the layer but does not count it
deploy_NoCount(engine, layer) ==
  [engine EXCEPT !.active_deployments = Append(@, layer)]

\* faulty variant: a layer that is already deployed is not recorded again
deploy_Idempotent(engine, layer) ==
  IF layer \in Range(engine.active_deployments)
  THEN engine
  ELSE [engine EXCEPT !.deployment_count = @ + 1,
                      !.active_deployments = Append(@, layer)]

\* PerpetualDeploymentEngine.deploy(layer)
deploy(engine, layer) ==
  [engine EXCEPT !.deployment_count = @ + 1,
                 !.active_deployments = Append(@, layer)]

\* deployment_tasks = [deploy(layer) for layer in self.layers]; gather
DeployStart ==
  /\ frame.phase = "Deploy" /\ frame.pc = "call"
  /\ frame' = Enter(frame, [frame EXCEPT !.pc = "gather", !.list = layers,
                              !.pending = 1..Len(layers),
                              !.order = << >>, !.results = << >>,
                              !.errors = << >>])
  /\ UNCHANGED << domain, helix_bitcoin_bridge, systems, kernel, clock,
                  client, calls, reorders >>

\* faulty variant: the engine is handed a copy of the layer
DeployTask_Copy(i) ==
  /\ frame.phase = "Deploy" /\ frame.pc = "gather"
  /\ i \in Runnable(frame)
  /\ Overtake(frame, i)
  /\ LET copy == Cardinality(DOMAIN heap) + 1
     IN  /\ heap' = heap @@ (copy :> heap[frame.list[i]])
         /\ deployment_engine' = deploy(deployment_engine, copy)
  /\ frame' = ChildDone(frame, i, TRUE)
  /\ UNCHANGED << domain, helix_bitcoin_bridge, artifact_delivery, dashboard,
                  layers, is_running, clock, client, calls >>

\* one deployment_engine.deploy(layer) task
DeployTask(i) ==
  /\ frame.phase = "Deploy" /\ frame.pc = "gather"
  /\ i \in Runnable(frame)
  /\ Overtake(frame, i)
  /\ deployment_engine' = deploy(deployment_engine, frame.list[i])
  /\ frame' = ChildDone(frame, i, TRUE)
  /\ UNCHANGED << domain, helix_bitcoin_bridge, artifact_delivery, dashboard,
                  kernel, clock, client, calls >>

\* faulty variant: deploy_perpetual leaves the registry in reverse order
DeployJoin_ReversesRegistry ==
  /\ frame.phase = "Deploy" /\ frame.pc = "gather" /\ frame.pending = {}
  /\ frame' = Return(frame, [deployed_layers |-> Len(layers),
                             status |-> "perpetual", timestamp |-> clock])
  /\ layers' = [i \in 1..Len(layers) |-> layers[Len(layers) + 1 - i]]
  /\ UNCHANGED << domain, helix_bitcoin_bridge, systems, is_running, heap,
                  clock, client, calls, reorders >>

\* faulty variant: deployed_layers reports the number of configured kinds
DeployJoin_ReportsConfigured ==
  /\ frame.phase = "Deploy" /\ frame.pc = "gather" /\ frame.pending = {}
  /\ frame' = Return(frame, [deployed_layers |-> Len(LayerType),
                             status |-> "perpetual", timestamp |-> clock])
  /\ UNCHANGED << domain, helix_bitcoin_bridge, systems, kernel, clock,
                  client, calls, reorders >>

\* return {"deployed_layers": len(self.layers), "status": "perpetual", ...}
DeployJoin ==
  /\ frame.phase = "Deploy" /\ frame.pc = "gather" /\ frame.pending = {}
  /\ frame' = Return(frame, [deployed_layers |-> Len(layers),
                             status |-> "perpetual", timestamp |-> clock])
  /\ UNCHANGED << domain, helix_bitcoin_bridge, systems, kernel, clock,
                  client, calls, reorders >>

(* ------------------------ sync_layers / sync_all ------------------------ *)
\* faulty variant: every layer is put in SYNCING at once
MarkSyncing_All(h, id) ==
  [x \in DOMAIN h |-> [h[x] EXCEPT !.status = "syncing"]]

\* layer.status = DeploymentStatus.SYNCING
MarkSyncing(h, id) == [h EXCEPT ![id].status = "syncing"]

\* faulty variant: the layer is set ACTIVE but keeps its old last_updated
MarkSynced_StatusOnly(h, id, now) == [h EXCEPT ![id].status = "active"]

\* layer.status = ACTIVE; layer.last_updated = datetime.now()
MarkSynced(h, id, now) ==
  [h EXCEPT ![id].status = "active", ![id].last_updated = now]

\* the time at which a sleep started at `now` may be resumed
WakeTime(now) == now + SleepTicks

\* sync_all(self.layers) up to the first asyncio.sleep, or to its return
\* when the list is empty
SyncStart ==
  /\ frame.phase = "Sync" /\ frame.pc = "call"
  /\ LET f == Enter(frame, [frame EXCEPT !.list = layers, !.synced = << >>,
                              !.idx = 1])
     IN  IF layers = << >>
         THEN /\ frame' = Return(f, [synced_layers |-> << >>,
                                     timestamp |-> clock])
              /\ heap' = heap
         ELSE /\ heap' = MarkSyncing(heap, layers[1])
              /\ frame' = [f EXCEPT !.pc = "sleep",
                                    !.wake_at = WakeTime(clock)]
  /\ UNCHANGED << domain, helix_bitcoin_bridge, systems, layers, is_running,
                  clock, client, calls, reorders >>

\* the loop body after the sleep, then either the next layer's first half
\* or the return
SyncWake ==
  /\ frame.phase = "Sync" /\ frame.pc = "sleep"
  /\ LET now == Max(clock, frame.wake_at)
         id == frame.list[frame.idx]
         h == MarkSynced(heap, id, now)
         f == [frame EXCEPT !.synced = Append(@, heap[id].layer_type)]
     IN  /\ clock' = now
         /\ IF frame.idx < Len(frame.list)
            THEN /\ heap' = MarkSyncing(h, frame.list[frame.idx + 1])
                 /\ frame' = [f EXCEPT !.idx = @ + 1,
                                       !.wake_at = WakeTime(now)]
            ELSE /\ heap' = h
                 /\ frame' = Return([f EXCEPT !.idx = @ + 1],
                                    [synced_layers |-> f.synced,
                                     timestamp |-> now])
  /\ UNCHANGED << domain, helix_bitcoin_bridge, systems, layers, is_running,
                  client, calls, reorders >>


(* -------------------- deliver_artifacts_parallel ----------------------- *)
\* layer=list(LayerType)[i % 5], for the 0-based index i
ArtifactLayer(i) == LayerType[(i % RoundRobinModulus) + 1]

\* faulty variant: the artifacts are generated with the delivered flag set
NewArtifacts_AlreadyDelivered(count) ==
  [k \in 1..Max(count, 0) |->
     [ artifact_id |-> k - 1, layer |-> ArtifactLayer(k - 1),
       timestamp |-> clock, delivered |-> TRUE ]]

\* the comprehension over range(count); artifact_id stands for the number
\* that f"ARTIFACT-{i:08d}" prints
NewArtifacts(count) ==
  [k \in 1..Max(count, 0) |->
     [ artifact_id |-> k - 1, layer |-> ArtifactLayer(k - 1),
       timestamp |-> clock, delivered |-> FALSE ]]

\* faulty variant: the artifact is recorded but the delivery is not counted
deliver_artifact_NoCount(delivery, artifact) ==
  [delivery EXCEPT !.artifacts = Append(@, [artifact EXCEPT !.delivered = TRUE])]

\* ParallelArtifactDelivery.deliver_artifact(artifact), on the delivery system
deliver_artifact(delivery, artifact) ==
  [delivery EXCEPT !.artifacts = Append(@, [artifact EXCEPT !.delivered = TRUE]),
                   !.delivery_count = @ + 1]

\* sum(results) over a list of booleans
SumTrue(results) == Cardinality({i \in DOMAIN results : results[i] = TRUE})

\* faulty variant: start_main_infinite calls deliver_artifacts_parallel()
\* without a count
DeliverStart_RunOmitsCount ==
  /\ frame.phase = "Deliver" /\ frame.pc = "call"
  /\ LET batch == NewArtifacts(frame.count)
     IN  frame' = Enter(frame, [frame EXCEPT !.pc = "gather", !.batch = batch,
                                  !.pending = 1..Len(batch),
                                  !.order = << >>, !.results = << >>,
                                  !.errors = << >>])
  /\ UNCHANGED << domain, helix_bitcoin_bridge, systems, kernel, clock,
                  client, calls, reorders >>

\* artifacts = [...]; deliver_batch: tasks = [...]; await asyncio.gather
DeliverStart ==
  /\ frame.phase = "Deliver" /\ frame.pc = "call"
  /\ LET count == IF frame.op = "start_main_infinite" THEN RunCount
                  ELSE frame.count
         batch == NewArtifacts(count)
     IN  frame' = Enter(frame, [frame EXCEPT !.pc = "gather", !.batch = batch,
                                  !.pending = 1..Len(batch),
                                  !.order = << >>, !.results = << >>,
                                  !.errors = << >>])
  /\ UNCHANGED << domain, helix_bitcoin_bridge, systems, kernel, clock,
                  client, calls, reorders >>

\* one deliver_artifact(artifact) task
DeliverTask(i) ==
  /\ frame.phase = "Deliver" /\ frame.pc = "gather"
  /\ i \in Runnable(frame)
  /\ Overtake(frame, i)
  /\ artifact_delivery' = deliver_artifact(artifact_delivery, frame.batch[i])
  /\ frame' = [ChildDone(frame, i, TRUE) EXCEPT !.batch[i].delivered = TRUE]
  /\ UNCHANGED << domain, helix_bitcoin_bridge, deployment_engine, dashboard,
                  kernel, clock, client, calls >>

\* the dictionary deliver_batch returns
BatchResult(f) ==
  [ delivered |-> SumTrue(Gathered(f, Len(f.batch))),
    total |-> Len(f.batch), timestamp |-> clock ]

\* faulty variant: deliver_batch stamps every layer when it returns
DeliverJoin_StampsLayers ==
  /\ frame.phase = "Deliver" /\ frame.pc = "gather" /\ frame.pending = {}
  /\ frame' = Return(frame, BatchResult(frame))
  /\ heap' = [id \in DOMAIN heap |-> [heap[id] EXCEPT !.last_updated = clock]]
  /\ UNCHANGED << domain, helix_bitcoin_bridge, systems, layers, is_running,
                  clock, client, calls, reorders >>

\* results = await asyncio.gather(*tasks); return {...}
DeliverJoin ==
  /\ frame.phase = "Deliver" /\ frame.pc = "gather" /\ frame.pending = {}
  /\ frame' = Return(frame, BatchResult(frame))
  /\ UNCHANGED << domain, helix_bitcoin_bridge, systems, kernel, clock,
                  client, calls, reorders >>

(* ---------------------- run_unified_operations ------------------------- *)
\* zakat_amount = total_wealth * 0.025, for the sample request's wealth
ZakatDue(total_wealth) == (total_wealth * 25) \div 1000

\* liquidity_depth of prepare_for_auction: base_value * m * m with the
\* liquidity multiplier m = min(38e6 * 50000 / 1e9, 2.0) * 75.5 / 50 = 3.02
LiquidityDepth(base_value) ==
  LET calibrated_value == (base_value * 302) \div 100
  IN  ((calibrated_value \div 100) * 302)

\* operations = [...]; await asyncio.gather(*operations)
OpsStart ==
  /\ frame.phase = "RunOperations" /\ frame.pc = "call"
  /\ frame' = Enter(frame, [frame EXCEPT !.pc = "gather",
                              !.pending = 1..Len(Operations),
                              !.order = << >>, !.results = << >>,
                              !.errors = << >>])
  /\ UNCHANGED << domain, helix_bitcoin_bridge, systems, kernel, clock,
                  client, calls, reorders >>

\* TatrasAIMLLayer.predict: the counter moves before self.models[0] is read
Predict ==
  /\ tatras_ai_ml' = [tatras_ai_ml EXCEPT !.predictions_count = @ + 1]
  /\ frame' = IF tatras_ai_ml.models = << >>
              THEN ChildRaised(frame, 1, "IndexError")
              ELSE ChildDone(frame, 1, [prediction |-> "success",
                                        model_used |-> tatras_ai_ml.models[1]])
  /\ UNCHANGED << real_estate, crm_analytics, zakat_automation,
                  nft_achievement, auction_preparation >>

\* RealEstateTokenizationLayer.tokenize_property({"id": "PROP-001", ...})
TokenizeProperty ==
  /\ real_estate' = [real_estate EXCEPT !.tokenized_properties = @ + 1,
                                        !.total_value = @ + 500000]
  /\ frame' = ChildDone(frame, 2,
                [token_id |-> real_estate.tokenized_properties + 1,
                 property_id |-> "PROP-001", value |-> 500000])
  /\ UNCHANGED << tatras_ai_ml, crm_analytics, zakat_automation,
                  nft_achievement, auction_preparation >>

\* CRMAnalyticsLayer.process_architect_activity("ARCH-12345", {...})
ProcessArchitectActivity ==
  /\ crm_analytics' = [crm_analytics EXCEPT !.analytics_processed = @ + 1]
  /\ frame' = ChildDone(frame, 3,
                [architect_id |-> "ARCH-12345",
                 activity_type |-> "project_completion", score |-> 95])
  /\ UNCHANGED << tatras_ai_ml, real_estate, zakat_automation,
                  nft_achievement, auction_preparation >>

\* ZakatAutomationLayer.calculate_zakat({"total_wealth": 100000, ...})
CalculateZakat ==
  /\ zakat_automation' =
       [zakat_automation EXCEPT !.calculations_count = @ + 1,
                                !.total_zakat_processed = @ + ZakatDue(100000)]
  /\ frame' = ChildDone(frame, 4,
                [wealth |-> 100000, zakat_due |-> ZakatDue(100000),
                 currency |-> "USD"])
  /\ UNCHANGED << tatras_ai_ml, real_estate, crm_analytics,
                  nft_achievement, auction_preparation >>

\* NFTAchievementLayer.mint_achievement_nft({"type": "master_architect", ...})
MintAchievementNft ==
  /\ nft_achievement' = [nft_achievement EXCEPT !.nfts_minted = @ + 1,
                                                !.achievements_tracked = @ + 1]
  /\ frame' = ChildDone(frame, 5,
                [nft_id |-> nft_achievement.nfts_minted + 1,
                 achievement_type |-> "master_architect",
                 recipient |-> "ARCH-12345"])
  /\ UNCHANGED << tatras_ai_ml, real_estate, crm_analytics,
                  zakat_automation, auction_preparation >>

\* AuctionPreparationLayer.prepare_for_auction({"id": "RWA-PROP-001", ...})
PrepareForAuction ==
  /\ auction_preparation' =
       [auction_preparation EXCEPT !.assets_prepared = @ + 1,
                                   !.total_liquidity = @ + LiquidityDepth(1000000)]
  /\ frame' = ChildDone(frame, 6,
                [rwa_asset |-> "RWA-PROP-001", reserve_price |-> 800000,
                 status |-> "ready"])
  /\ UNCHANGED << tatras_ai_ml, real_estate, crm_analytics,
                  zakat_automation, nft_achievement >>

\* the coroutine at position i of the `operations` list
Operation(i) ==
  CASE i = 1 -> Predict
    [] i = 2 -> TokenizeProperty
    [] i = 3 -> ProcessArchitectActivity
    [] i = 4 -> CalculateZakat
    [] i = 5 -> MintAchievementNft
    [] i = 6 -> PrepareForAuction

\* one task of the operations group
OpsTask(i) ==
  /\ frame.phase = "RunOperations" /\ frame.pc = "gather"
  /\ i \in Runnable(frame)
  /\ Overtake(frame, i)
  /\ Operation(i)
  /\ UNCHANGED << helix_bitcoin_bridge, systems, kernel, clock, client, calls >>

\* faulty variant: gather(return_exceptions=True) - the call returns whatever
\* results there are
OpsOutcome_CollectAll(f) ==
  Return(f, [operations_completed |-> Cardinality(DOMAIN f.results),
             results |-> f.results])

\* faulty variant: the results are handed back in completion order
OpsOutcome_CompletionOrder(f) ==
  IF f.errors # << >>
  THEN Raise(f, FirstError(f))
  ELSE Return(f, [operations_completed |-> Len(Operations),
                  results |-> [k \in 1..Len(Operations) |->
                                 f.results[f.order[k]]]])

\* what `await asyncio.gather(*operations)` hands back to
\* run_unified_operations once every task has run: the first exception
\* raised, or else the dictionary built from the results
OpsOutcome(f) ==
  IF f.errors # << >>
  THEN Raise(f, FirstError(f))
  ELSE Return(f, [operations_completed |-> Len(Operations),
                  results |-> Gathered(f, Len(Operations))])

\* results = await asyncio.gather(*operations); return {...}
OpsJoin ==
  /\ frame.phase = "RunOperations" /\ frame.pc = "gather" /\ frame.pending = {}
  /\ frame' = OpsOutcome(frame)
  /\ UNCHANGED << domain, helix_bitcoin_bridge, systems, kernel, clock,
                  client, calls, reorders >>


(* ------------------ calculate_zakat in binary64 ------------------------ *)
\* Python floats are IEEE-754 binary64.  A non-negative finite float is kept
\* here as [m, e], the number m * 2^e, with the natural m as its sequence of
\* bits, least significant first and without leading zeros (<< >> is 0).
\* Exponent overflow and subnormals do not occur for the values used.

\* significand bits of a binary64
Precision == 53

\* wealth_data["total_wealth"] values a client passes; 0 is also what
\* wealth_data.get("total_wealth", 0) yields for a missing key
Wealths == {0, 1, 3, 40, 1000, 100000}

\* the bits of the natural n
RECURSIVE Bits(_)
Bits(n) == IF n = 0 THEN << >> ELSE << n % 2 >> \o Bits(n \div 2)

\* a + b + carry on bit sequences
RECURSIVE AddCarry(_, _, _)
AddCarry(a, b, c) ==
  IF a = << >> /\ b = << >>
  THEN IF c = 0 THEN << >> ELSE << 1 >>
  ELSE LET x == IF a = << >> THEN 0 ELSE Head(a)
           y == IF b = << >> THEN 0 ELSE Head(b)
           ta == IF a = << >> THEN << >> ELSE Tail(a)
           tb == IF b = << >> THEN << >> ELSE Tail(b)
       IN  << (x + y + c) % 2 >> \o AddCarry(ta, tb, (x + y + c) \div 2)
AddBits(a, b) == AddCarry(a, b, 0)

\* a * 2^k on bit sequences
ShiftLeft(a, k) == IF a = << >> THEN << >> ELSE [i \in 1..k |-> 0] \o a

\* a * n on a bit sequence a and a natural n
RECURSIVE MulCarry(_, _, _)
MulCarry(a, n, c) ==
  IF a = << >> THEN Bits(c)
  ELSE << (Head(a) * n + c) % 2 >>
         \o MulCarry(Tail(a), n, (Head(a) * n + c) \div 2)
MulSmall(a, n) == IF n = 0 THEN << >> ELSE MulCarry(a, n, 0)

\* the exact number n as [m, e]
FromNat(n) == [m |-> Bits(n), e |-> 0]

\* round to nearest, ties to even: the binary64 nearest to the exact v
RoundToDouble(v) ==
  LET n == Len(v.m)
      d == n - Precision
  IN  IF d <= 0 THEN v
      ELSE LET q == SubSeq(v.m, d + 1, n)
               half == v.m[d] = 1
               sticky == \E i \in 1..(d - 1) : v.m[i] = 1
               up == half /\ (sticky \/ q[1] = 1)
           IN  [m |-> IF up THEN AddBits(q, << 1 >>) ELSE q, e |-> v.e + d]

\* the literal 0.025: 0x1.999999999999ap-6 = 0x1999999999999A * 2^-58,
\* hexadecimal digits most significant first
RateHex == << 1, 9, 9, 9, 9, 9, 9, 9, 9, 9, 9, 9, 9, 10 >>
RECURSIVE HexToBits(_)
HexToBits(h) ==
  IF h = << >> THEN << >>
  ELSE LET d == h[Len(h)]
       IN  << d % 2, (d \div 2) % 2, (d \div 4) % 2, (d \div 8) % 2 >>
             \o HexToBits(SubSeq(h, 1, Len(h) - 1))
RECURSIVE Canonical(_)
Canonical(b) ==
  IF b = << >> THEN << >>
  ELSE IF b[Len(b)] = 0 THEN Canonical(SubSeq(b, 1, Len(b) - 1)) ELSE b
Rate == [m |-> Canonical(HexToBits(RateHex)), e |-> 0 - 58]

\* n * y for an int n and a float y: the int converts exactly
IntTimesFloat(n, y) == RoundToDouble([m |-> MulSmall(y.m, n), e |-> y.e])

\* x + y for two floats
FloatAdd(x, y) ==
  LET e0 == IF x.e <= y.e THEN x.e ELSE y.e
  IN  RoundToDouble([m |-> AddBits(ShiftLeft(x.m, x.e - e0),
                                   ShiftLeft(y.m, y.e - e0)),
                     e |-> e0])

\* zakat_amount = total_wealth * 0.025 for an int total_wealth
zakat_amount(total_wealth) == IntTimesFloat(total_wealth, Rate)

\* ZakatAutomationLayer.calculate_zakat: the layer after the call
calculate_zakat(zakat, total_wealth) ==
  [zakat EXCEPT !.calculations_count = @ + 1,
                !.total_zakat_processed =
                   FloatAdd(@, zakat_amount(total_wealth))]

\* a client awaits zakat_automation.calculate_zakat({"total_wealth": w});
\* the coroutine has no suspension point.  `pre` only records the layer
\* before the call.
CalculateZakatDirect(total_wealth) ==
  /\ calls < MaxCalls
  /\ calls' = calls + 1
  /\ zakat_automation' = calculate_zakat(zakat_automation, total_wealth)
  /\ client' = [ op |-> "calculate_zakat", location |-> "", btc_amount |-> 0,
                 error |-> "",
                 result |-> << [ wealth |-> total_wealth,
                                 zakat_due |-> zakat_amount(total_wealth),
                                 currency |-> "USD" ] >>,
                 pre |-> << zakat_automation >> ]
  /\ UNCHANGED << tatras_ai_ml, real_estate, crm_analytics, nft_achievement,
                  auction_preparation, helix_bitcoin_bridge, systems, kernel,
                  clock, frame, reorders >>

(* ---------------------------- dashboard -------------------------------- *)
\* faulty variant: properties_tokenized is reported as 0, like total_artifacts
update_metrics_NoProperties(active_layers) ==
  [ total_architects |-> crm_analytics.total_architects,
    active_layers |-> active_layers,
    total_artifacts |-> 0,
    nft_minted |-> nft_achievement.nfts_minted,
    zakat_processed |-> zakat_automation.total_zakat_processed,
    properties_tokenized |-> 0,
    ai_ml_predictions |-> tatras_ai_ml.predictions_count,
    timestamp |-> clock ]

\* faulty variant: total_artifacts reports the delivery counter
update_metrics_CountsArtifacts(active_layers) ==
  [ total_architects |-> crm_analytics.total_architects,
    active_layers |-> active_layers,
    total_artifacts |-> artifact_delivery.delivery_count,
    nft_minted |-> nft_achievement.nfts_minted,
    zakat_processed |-> zakat_automation.total_zakat_processed,
    properties_tokenized |-> real_estate.tokenized_properties,
    ai_ml_predictions |-> tatras_ai_ml.predictions_count,
    timestamp |-> clock ]

\* RealTimeDashboard.update_metrics: the DashboardMetrics record it appends
update_metrics(active_layers) ==
  [ total_architects |-> crm_analytics.total_architects,
    active_layers |-> active_layers,
    total_artifacts |-> 0,
    nft_minted |-> nft_achievement.nfts_minted,
    zakat_processed |-> zakat_automation.total_zakat_processed,
    properties_tokenized |-> real_estate.tokenized_properties,
    ai_ml_predictions |-> tatras_ai_ml.predictions_count,
    timestamp |-> clock ]

\* f"{n:,}": the decimal digits of n in groups of three, most significant
\* group first
RECURSIVE ThousandGroups(_)
ThousandGroups(n) ==
  IF n < 1000 THEN << n >>
  ELSE Append(ThousandGroups(n \div 1000), n % 1000)

\* faulty variant: the first snapshot of the history is reported
get_dashboard_data_Oldest(history) ==
  IF history = << >>
  THEN [status |-> "no_data"]
  ELSE LET latest == history[1]
       IN  [ current_metrics |-> latest,
             total_architects |-> ThousandGroups(latest.total_architects),
             status |-> "operational", uptime |-> "perpetual" ]

\* RealTimeDashboard.get_dashboard_data over a metrics history
get_dashboard_data(history) ==
  IF history = << >>
  THEN [status |-> "no_data"]
  ELSE LET latest == history[Len(history)]
       IN  [ current_metrics |-> latest,
             total_architects |-> ThousandGroups(latest.total_architects),
             status |-> "operational", uptime |-> "perpetual" ]

\* faulty variant: the dashboard keeps the newest snapshot only
update_dashboard_KeepLatest ==
  [dashboard EXCEPT !.metrics_history = << update_metrics(Len(layers)) >>]

\* faulty variant: only the layers whose status is ACTIVE are counted
update_dashboard_CountsActive ==
  [dashboard EXCEPT !.metrics_history =
     Append(@, update_metrics(
                 Cardinality({i \in 1..Len(layers) :
                                heap[layers[i]].status = "active"})))]

\* OmniversalKernel.update_dashboard: the dashboard after the call
update_dashboard ==
  [dashboard EXCEPT !.metrics_history =
     Append(@, update_metrics(Len(layers)))]

\* a monitoring task calls update_dashboard(), a plain method, between two
\* client calls or while sync_all is suspended in asyncio.sleep.  (The
\* children of a gather group are queued back to back, so a monitor running
\* around them sees the state before the call or after the group.)
UpdateDashboard ==
  /\ Free \/ frame.pc = "sleep"
  /\ calls < MaxCalls
  /\ calls' = calls + 1
  /\ dashboard' = update_dashboard
  /\ UNCHANGED << domain, helix_bitcoin_bridge, deployment_engine,
                  artifact_delivery, kernel, clock, frame, client, reorders >>

(* ------------------------- HelixBitcoinBridge -------------------------- *)
\* faulty variant: the location is looked up as given, without lower()
Supported_CaseSensitive(location) == location \in SupportedLocations

\* the validation at the top of convert_btc_to_bricks
Supported(location) == Lower(location) \in SupportedLocations

\* faulty variant: the counters move before the location is validated
convert_btc_to_bricks_CountFirst(bridge, btc_amount, location) ==
  [bridge EXCEPT !.tokenized_btc_bricks = @ + 1,
                 !.total_btc_value = @ + btc_amount]

\* the bridge after convert_btc_to_bricks(btc_amount, location, ...)
convert_btc_to_bricks(bridge, btc_amount, location) ==
  IF Supported(location)
  THEN [bridge EXCEPT !.tokenized_btc_bricks = @ + 1,
                      !.total_btc_value = @ + btc_amount]
  ELSE bridge

\* the client awaits kernel.helix_bitcoin_bridge.convert_btc_to_bricks(...);
\* the coroutine has no suspension point.  The frame of the client's
\* previous call is gone by then.
ConvertBtcToBricks(btc_amount, location) ==
  /\ Free
  /\ calls < MaxCalls
  /\ calls' = calls + 1
  /\ frame' = IdleFrame
  /\ helix_bitcoin_bridge' =
       convert_btc_to_bricks(helix_bitcoin_bridge, btc_amount, location)
  /\ client' =
       [ op |-> "convert_btc_to_bricks", location |-> location,
         btc_amount |-> btc_amount,
         error |-> IF Supported(location) THEN "" ELSE "ValueError",
         result |-> IF Supported(location)
                    THEN << [ asset_id |->
                                << Upper(Lower(location)),
                                   helix_bitcoin_bridge.tokenized_btc_bricks + 1 >>,
                              location |-> location,
                              btc_amount |-> btc_amount ] >>
                    ELSE << >>,
         pre |-> << helix_bitcoin_bridge >> ]
  /\ UNCHANGED << domain, systems, kernel, clock, reorders >>

(* ------------------------ start_main_infinite -------------------------- *)
\* the dictionary start_main_infinite returns
MainResult(f, dashboard_data) ==
  [ status |-> "operational", mode |-> "main-infinite",
    deployment |-> f.parts["Deploy"], sync |-> f.parts["Sync"],
    artifacts |-> f.parts["Deliver"], operations |-> f.parts["RunOperations"],
    dashboard |-> dashboard_data, sovereignty |-> "advanced" ]

\* Step 6 and the tail of start_main_infinite: update_dashboard(),
\* self.is_running = True, return {...}
MainSnapshot ==
  /\ frame.op = "start_main_infinite"
  /\ frame.phase = "Snapshot" /\ frame.pc = "call"
  /\ dashboard' = update_dashboard
  /\ is_running' = TRUE
  /\ frame' = [frame EXCEPT
       !.pc = "done",
       !.result = << MainResult(frame,
                       get_dashboard_data(update_dashboard.metrics_history)) >>]
  /\ UNCHANGED << domain, helix_bitcoin_bridge, deployment_engine,
                  artifact_delivery, layers, heap, clock, client, calls,
                  reorders >>

\* faulty variant: the kernel counts as operational as soon as the run has
\* been started
StatusField_OnceStarted ==
  IF frame.op = "start_main_infinite" THEN "operational" ELSE "standby"

\* OmniversalKernel.get_status()["status"]
StatusField == IF is_running THEN "operational" ELSE "standby"

\* OmniversalKernel.get_status(): the dictionary it builds from the layer
\* objects, the two systems and the dashboard
get_status ==
  [ kernel |-> "omniversal-kernel", mode |-> "main-infinite",
    status |-> StatusField,
    layers |->
      [ tatras_ai_ml |-> [predictions |-> tatras_ai_ml.predictions_count],
        real_estate |-> [tokenized |-> real_estate.tokenized_properties,
                         total_value |-> real_estate.total_value],
        crm_analytics |->
          [total_architects |-> crm_analytics.total_architects,
           analytics_processed |-> crm_analytics.analytics_processed],
        zakat_automation |->
          [total_processed |-> zakat_automation.total_zakat_processed,
           calculations |-> zakat_automation.calculations_count],
        nft_achievement |-> [minted |-> nft_achievement.nfts_minted,
                             achievements |-> nft_achievement.achievements_tracked],
        auction_preparation |->
          [assets_prepared |-> auction_preparation.assets_prepared,
           total_liquidity |-> auction_preparation.total_liquidity],
        helix_bitcoin_bridge |->
          [tokenized_btc_bricks |-> helix_bitcoin_bridge.tokenized_btc_bricks,
           total_btc_value |-> helix_bitcoin_bridge.total_btc_value] ],
    systems |-> [deployments |-> deployment_engine.deployment_count,
                 artifacts_delivered |-> artifact_delivery.delivery_count],
    dashboard |-> get_dashboard_data(dashboard.metrics_history) ]

\* a monitoring task calls get_status(), a plain method, at the points where
\* it can call update_dashboard(); `pre` only records, for the properties
\* below, the history the call read
GetStatus ==
  /\ Free \/ frame.pc = "sleep"
  /\ calls < MaxCalls
  /\ calls' = calls + 1
  /\ client' = [ op |-> "get_status", location |-> "", btc_amount |-> 0,
                 error |-> "", result |-> << get_status >>,
                 pre |-> << dashboard.metrics_history >> ]
  /\ UNCHANGED << domain, helix_bitcoin_bridge, systems, kernel, clock, frame,
                  reorders >>

(* ------------------- dashboard.py: load_state -------------------------- *)
\* the dictionary load_state returns for a missing file; {} is << >>
DefaultState ==
  [ status |-> "standby", mode |-> "main-infinite", layers |-> << >>,
    systems |-> << >>, dashboard |-> << >> ]

\* the string entries of a document export_state wrote, which JSON carries
\* unchanged, for a kernel whose get_status()["status"] was `status`
Exported(status) ==
  [ kernel |-> "omniversal-kernel", mode |-> "main-infinite",
    status |-> status ]

\* what the dashboard process can find at filepath: nothing, something
\* open() refuses, text json.load() rejects, or a JSON document (an export
\* of a standby or operational kernel, or the empty list)
Files ==
  { [kind |-> "missing", error |-> "FileNotFoundError", document |-> << >>] }
  \cup { [kind |-> "unreadable", error |-> e, document |-> << >>] :
           e \in {"PermissionError", "IsADirectoryError"} }
  \cup { [kind |-> "malformed", error |-> "JSONDecodeError",
          document |-> << >>] }
  \cup { [kind |-> "document", error |-> "", document |-> << d >>] :
           d \in {Exported("standby"), Exported("operational"), << >>} }

\* faulty variant: except Exception, every failure yields the default
load_state_CatchAll(file) ==
  IF file.error = ""
  THEN [error |-> "", result |-> file.document]
  ELSE [error |-> "", result |-> << DefaultState >>]

\* DashboardServer.load_state(filepath): open and json.load in a try whose
\* only handler is `except FileNotFoundError`
load_state(file) ==
  IF file.error = ""
  THEN [error |-> "", result |-> file.document]
  ELSE IF file.error = "FileNotFoundError"
       THEN [error |-> "", result |-> << DefaultState >>]
       ELSE [error |-> file.error, result |-> << >>]

\* the dashboard process calls load_state(); `pre` only records what was at
\* filepath
LoadState(file) ==
  /\ client' = [ op |-> "load_state", location |-> "", btc_amount |-> 0,
                 error |-> load_state(file).error,
                 result |-> load_state(file).result,
                 pre |-> << file >> ]
  /\ UNCHANGED << domain, helix_bitcoin_bridge, systems, kernel, clock, frame,
                  calls, reorders >>

(* --------------------------- specifications ---------------------------- *)
\* the steps of the kernel's coroutines, whoever called them
KernelStep ==
  \/ InitStart
  \/ \E i \in 1..Len(LayerType) : InitTask(i)
  \/ InitJoin
  \/ DeployStart
  \/ \E i \in 1..Len(LayerType) : DeployTask(i)
  \/ DeployJoin
  \/ SyncStart
  \/ SyncWake
  \/ DeliverStart
  \/ \E i \in 1..RunCount : DeliverTask(i)
  \/ DeliverJoin
  \/ OpsStart
  \/ \E i \in 1..Len(Operations) : OpsTask(i)
  \/ OpsJoin

\* a client using the kernel object as a library, one method at a time;
\* start_main_infinite, which chains the same methods, is explored by SpecRun
ClientCall ==
  \/ \E op \in KernelMethods :
       \E count \in CountArgs :
         /\ (op # "deliver_artifacts_parallel" => count = DefaultCount)
         /\ Call(op, count)
  \/ UpdateDashboard
  \/ \E b \in BtcAmounts, loc \in Locations : ConvertBtcToBricks(b, loc)

Next == ClientCall \/ KernelStep

Spec == Init /\ [][Next]_vars

\* main(): kernel = OmniversalKernel(); await kernel.start_main_infinite()
RunMain ==
  /\ calls = 0
  /\ Call("start_main_infinite", DefaultCount)

NextRun == RunMain \/ KernelStep \/ MainSnapshot

SpecRun == Init /\ [][NextRun]_vars

\* the same program on an asyncio event loop, which runs every ready task
\* and fires every timer: a step that stays possible is eventually taken
SpecRunFair == SpecRun /\ WF_vars(NextRun)

\* a program that awaits start_main_infinite() on a fresh kernel while a
\* monitoring task of the same event loop reads the kernel through
\* update_dashboard() and get_status()
StartRun ==
  /\ frame.op = "idle"
  /\ Call("start_main_infinite", DefaultCount)

\* the monitoring task makes at most MaxReads calls
Monitor ==
  /\ calls < MaxReads + (IF frame.op = "idle" THEN 0 ELSE 1)
  /\ UpdateDashboard \/ GetStatus

NextWatch == StartRun \/ KernelStep \/ MainSnapshot \/ Monitor

SpecWatch == Init /\ [][NextWatch]_vars


\* a program that awaits start_main_infinite() on a fresh kernel and then,
\* or instead, deliver_artifacts_parallel with or without a count
DirectDeliver ==
  \E count \in CountArgs : Call("deliver_artifacts_parallel", count)

NextDeliver == RunMain \/ DirectDeliver \/ KernelStep \/ MainSnapshot

SpecDeliver == Init /\ [][NextDeliver]_vars


\* asyncio.run(main()) is interrupted: the task awaiting start_main_infinite
\* is cancelled while it is suspended in a gather or a sleep, CancelledError
\* is raised there and nothing in the kernel catches it; the children of the
\* gather are cancelled with it
Interrupt ==
  /\ frame.op = "start_main_infinite"
  /\ frame.pc \in {"gather", "sleep"}
  /\ frame' = Raise(frame, "CancelledError")
  /\ UNCHANGED << domain, helix_bitcoin_bridge, systems, kernel, clock,
                  client, calls, reorders >>

\* a program that awaits start_main_infinite() on a fresh kernel, may be
\* interrupted, and reads get_status() at most MaxReads times
ReadStatus ==
  /\ calls < MaxReads + (IF frame.op = "idle" THEN 0 ELSE 1)
  /\ GetStatus

NextInterrupt ==
  StartRun \/ KernelStep \/ MainSnapshot \/ Interrupt \/ ReadStatus

SpecInterrupt == Init /\ [][NextInterrupt]_vars


\* ---- two overlapping sync_all calls ----
\* A second task of the same event loop awaits kernel.sync_layers() while
\* the client's own call may be under way.  Its coroutine frame is kept in
\* `client`: pre[1] holds pc, the list it iterates, the index, the timer
\* deadline and the names synced so far; `overlapped`, `seen` and `early`
\* only record, for the properties below, whether the other call was
\* sleeping when this one started, the status the current layer had before
\* this call marked it, and whether this call ever resumed to find its
\* current layer already ACTIVE.
PeerFrame(f, r) ==
  [ op |-> "sync_all", location |-> "", btc_amount |-> 0, error |-> "",
    result |-> r, pre |-> << f >> ]
Peer == client.pre[1]
PeerSleeping == client.op = "sync_all" /\ Peer.pc = "sleep"

\* sync_all(self.layers) of the second task up to its first asyncio.sleep,
\* or to its return when the list is empty
PeerStart ==
  /\ client.op = "none"
  /\ Free \/ frame.pc = "sleep"
  /\ LET f == [ pc |-> "sleep", list |-> layers, idx |-> 1,
                wake_at |-> WakeTime(clock), synced |-> << >>,
                overlapped |-> (frame.phase = "Sync" /\ frame.pc = "sleep"),
                seen |-> IF layers = << >> THEN "none"
                         ELSE heap[layers[1]].status,
                early |-> FALSE ]
     IN  IF layers = << >>
         THEN /\ client' = PeerFrame([f EXCEPT !.pc = "done"],
                             << [synced_layers |-> << >>,
                                 timestamp |-> clock] >>)
              /\ heap' = heap
         ELSE /\ client' = PeerFrame(f, << >>)
              /\ heap' = MarkSyncing(heap, layers[1])
  /\ UNCHANGED << domain, helix_bitcoin_bridge, systems, layers, is_running,
                  clock, frame, calls, reorders >>

\* faulty variant: after the sleep the layer gets back the status it had
\* before this call marked it
PeerWake_RestoresStatus ==
  /\ PeerSleeping
  /\ frame.pc = "sleep" => Peer.wake_at <= frame.wake_at
  /\ LET now == Max(clock, Peer.wake_at)
         id == Peer.list[Peer.idx]
         h == [heap EXCEPT ![id].status = Peer.seen,
                           ![id].last_updated = now]
         f == [Peer EXCEPT !.synced = Append(@, heap[id].layer_type),
                           !.early = @ \/ heap[id].status = "active"]
     IN  /\ clock' = now
         /\ IF Peer.idx < Len(Peer.list)
            THEN /\ heap' = MarkSyncing(h, Peer.list[Peer.idx + 1])
                 /\ client' = PeerFrame(
                      [f EXCEPT !.idx = @ + 1, !.wake_at = WakeTime(now),
                                !.seen = h[Peer.list[Peer.idx + 1]].status],
                      << >>)
            ELSE /\ heap' = h
                 /\ client' = PeerFrame(
                      [f EXCEPT !.idx = @ + 1, !.pc = "done"],
                      << [synced_layers |-> f.synced, timestamp |-> now] >>)
  /\ UNCHANGED << domain, helix_bitcoin_bridge, systems, layers, is_running,
                  frame, calls, reorders >>

\* the second task's loop body after the sleep, then either the next
\* layer's first half or the return; of two sleeping coroutines the event
\* loop resumes the one with the earlier deadline, either one on a tie
PeerWake ==
  /\ PeerSleeping
  /\ frame.pc = "sleep" => Peer.wake_at <= frame.wake_at
  /\ LET now == Max(clock, Peer.wake_at)
         id == Peer.list[Peer.idx]
         h == MarkSynced(heap, id, now)
         f == [Peer EXCEPT !.synced = Append(@, heap[id].layer_type),
                           !.early = @ \/ heap[id].status = "active"]
     IN  /\ clock' = now
         /\ IF Peer.idx < Len(Peer.list)
            THEN /\ heap' = MarkSyncing(h, Peer.list[Peer.idx + 1])
                 /\ client' = PeerFrame(
                      [f EXCEPT !.idx = @ + 1, !.wake_at = WakeTime(now),
                                !.seen = h[Peer.list[Peer.idx + 1]].status],
                      << >>)
            ELSE /\ heap' = h
                 /\ client' = PeerFrame(
                      [f EXCEPT !.idx = @ + 1, !.pc = "done"],
                      << [synced_layers |-> f.synced, timestamp |-> now] >>)
  /\ UNCHANGED << domain, helix_bitcoin_bridge, systems, layers, is_running,
                  frame, calls, reorders >>

\* the client's own sync_all resumes when its timer is the earlier one
KernelWake ==
  /\ PeerSleeping => frame.wake_at <= Peer.wake_at
  /\ SyncWake

\* the client initializes a fresh kernel, then awaits sync_layers()
InitializeFirst ==
  /\ calls = 0
  /\ Call("initialize_all_layers", DefaultCount)
CallSync ==
  /\ layers # << >>
  /\ Call("sync_layers", DefaultCount)

NextOverlap ==
  \/ InitializeFirst
  \/ InitStart
  \/ \E i \in 1..Len(LayerType) : InitTask(i)
  \/ InitJoin
  \/ CallSync
  \/ SyncStart
  \/ KernelWake
  \/ PeerStart
  \/ PeerWake

SpecOverlap == Init /\ [][NextOverlap]_vars


\* a program that only uses the Bitcoin bridge of a fresh kernel, with
\* locations in either spelling and several whole-number amounts (their
\* float sums are exact)
BridgeLocations == Locations \cup {"Tokyo", "london"}
BridgeAmounts == BtcAmounts \cup {1, 3}

NextBridge ==
  \E b \in BridgeAmounts, loc \in BridgeLocations : ConvertBtcToBricks(b, loc)

SpecBridge == Init /\ [][NextBridge]_vars


\* the kernel's main() in one process and, in another, a DashboardServer
\* that calls load_state() at any time
DisplayDashboard == \E file \in Files : LoadState(file)

NextServe == RunMain \/ KernelStep \/ MainSnapshot \/ DisplayDashboard

SpecServe == Init /\ [][NextServe]_vars


\* a program that only uses the Zakat layer of a fresh kernel; here the
\* ledger total_zakat_processed = 0.0 is kept as the float it is
InitZakat ==
  /\ tatras_ai_ml = [models |-> << >>, predictions_count |-> 0]
  /\ real_estate = [tokenized_properties |-> 0, total_value |-> 0]
  /\ crm_analytics = [total_architects |-> TotalArchitects,
                      active_architects |-> 0, analytics_processed |-> 0]
  /\ zakat_automation = [total_zakat_processed |-> FromNat(0),
                         calculations_count |-> 0]
  /\ nft_achievement = [nfts_minted |-> 0, achievements_tracked |-> 0]
  /\ auction_preparation = [assets_prepared |-> 0, total_liquidity |-> 0]
  /\ helix_bitcoin_bridge = [tokenized_btc_bricks |-> 0, total_btc_value |-> 0]
  /\ deployment_engine = [deployment_count |-> 0, active_deployments |-> << >>]
  /\ artifact_delivery = [artifacts |-> << >>, delivery_count |-> 0]
  /\ dashboard = [metrics_history |-> << >>]
  /\ layers = << >>
  /\ is_running = FALSE
  /\ heap = << >>
  /\ clock = 0
  /\ frame = IdleFrame
  /\ client = [op |-> "none", location |-> "", btc_amount |-> 0,
               error |-> "", result |-> << >>, pre |-> << >>]
  /\ calls = 0
  /\ reorders = 0

NextZakat == \E w \in Wealths : CalculateZakatDirect(w)

SpecZakat == InitZakat /\ [][NextZakat]_vars


(* ============================ properties =============================== *)
InOrder(order) == \A k \in 1..Len(order) : order[k] = k
Finished == frame.pc \in {"done", "failed"}
Status(id) == heap[id].status
PhaseIndex(p) == CHOOSE j \in 1..Len(PhaseOrder) : PhaseOrder[j] = p

\* how much of phase number k has been carried out, and how much there is
PhaseProgress(k) ==
  CASE k = 1 -> Cardinality(DOMAIN heap)
    [] k = 2 -> deployment_engine.deployment_count
    [] k = 3 -> Cardinality({id \in DOMAIN heap : heap[id].last_updated > 0})
    [] k = 4 -> artifact_delivery.delivery_count
    [] k = 5 -> tatras_ai_ml.predictions_count
                + real_estate.tokenized_properties
                + crm_analytics.analytics_processed
                + zakat_automation.calculations_count
                + nft_achievement.nfts_minted
                + auction_preparation.assets_prepared
    [] k = 6 -> Len(dashboard.metrics_history)
PhaseWork(k) ==
  CASE k = 4 -> RunCount
    [] k = 6 -> 1
    [] OTHER -> Len(LayerType)

\* C1: in a run of start_main_infinite the phases Initialize, Deploy, Sync,
\* Deliver, RunOperations, Snapshot are carried out in this order: while the
\* run is in one phase every earlier phase has been carried out completely
\* and exactly once and no later phase has begun, and at the end of the run
\* each of the six has been carried out exactly once.
C1_PhasesInOrder ==
  frame.op = "start_main_infinite" =>
    LET cur == PhaseIndex(frame.phase)
    IN  /\ \A k \in 1..Len(PhaseOrder) :
              /\ k < cur => PhaseProgress(k) = PhaseWork(k)
              /\ k > cur => PhaseProgress(k) = 0
              /\ PhaseProgress(k) <= PhaseWork(k)
        /\ frame.pc = "call" => PhaseProgress(cur) = 0
        /\ frame.pc = "done" =>
              \A k \in 1..Len(PhaseOrder) : PhaseProgress(k) = PhaseWork(k)
C1_Witness ==
  /\ frame.op = "start_main_infinite" /\ frame.pc = "done"
  /\ is_running

\* C2: once initialize_all_layers has returned, the kernel's layer list
\* holds exactly one Layer per LayerType member, each ACTIVE, in the
\* declaration order of LayerType, whatever order the initialize() tasks
\* completed in.
C2_LayersInDeclarationOrder ==
  (frame.op = "initialize_all_layers" /\ frame.pc = "done") =>
    /\ Len(layers) = Len(LayerType)
    /\ \A i \in 1..Len(layers) :
          /\ heap[layers[i]].layer_type = LayerType[i]
          /\ Status(layers[i]) = "active"
    /\ \A i, j \in 1..Len(layers) : layers[i] = layers[j] => i = j
    /\ frame.result = << layers >>
C2_Witness ==
  /\ frame.op = "initialize_all_layers" /\ frame.pc = "done"
  /\ ~InOrder(frame.order)

\* C3: in a run, from the end of the Deploy phase on, the engine's
\* deployment counter equals the number of layers in the registry and every
\* layer of the registry has been deployed exactly once.
C3_DeployedOncePerLayer ==
  (frame.op = "start_main_infinite" /\ PhaseIndex(frame.phase) > 2) =>
    /\ deployment_engine.deployment_count = Len(layers)
    /\ Len(layers) = Len(LayerType)
    /\ \A i \in 1..Len(layers) :
          Cardinality({j \in 1..Len(deployment_engine.active_deployments) :
                        deployment_engine.active_deployments[j] = layers[i]}) = 1
C3_Witness ==
  /\ frame.op = "start_main_infinite"
  /\ frame.phase = "Sync" /\ frame.pc = "call"
  /\ ~InOrder(frame.order)

\* C4: once sync_all(layers) has returned, every layer of the list is
\* ACTIVE and its last_updated is strictly greater than it was when the
\* call started.
C4_SyncedFresh ==
  (frame.op = "sync_layers" /\ frame.pc = "done") =>
    \A i \in 1..Len(frame.list) :
      /\ Status(frame.list[i]) = "active"
      /\ heap[frame.list[i]].last_updated > frame.pre.last_updated[i]
C4_Witness ==
  /\ frame.op = "sync_layers" /\ frame.pc = "done"
  /\ Len(frame.list) = Len(LayerType)
  /\ \E i \in 1..Len(frame.list) : frame.pre.last_updated[i] > 0

\* C5: once deliver_batch has returned for a batch of N artifacts, in
\* whatever order the N delivery tasks ran, it reports delivered = total = N
\* and the delivery counter is N higher than when the call started.
C5_BatchDelivered ==
  (frame.op = "deliver_artifacts_parallel" /\ frame.pc = "done") =>
    LET N == Len(frame.batch)
    IN  /\ N = frame.count
        /\ frame.result[1].delivered = N
        /\ frame.result[1].total = N
        /\ artifact_delivery.delivery_count
             = frame.pre.counters.delivery_count + N
C5_Witness ==
  /\ frame.op = "deliver_artifacts_parallel" /\ frame.pc = "done"
  /\ Len(frame.batch) >= 2
  /\ ~InOrder(frame.order)
  /\ frame.pre.counters.delivery_count > 0


\* C6: the k-th generated artifact (0-based index i = k - 1) is tagged with
\* the kind at index i mod K of the deliverable kinds, K being the number of
\* kinds itself, so that every kind has an artifact in a batch of at least
\* K.
C6_RoundRobinOverAllKinds ==
  LET K == Len(LayerType)
  IN  /\ \A k \in 1..Len(frame.batch) :
            frame.batch[k].layer = LayerType[((k - 1) % K) + 1]
      /\ Len(frame.batch) >= K =>
            \A j \in 1..K : \E k \in 1..Len(frame.batch) :
               frame.batch[k].layer = LayerType[j]

\* C7: convert_btc_to_bricks with a location that is neither tokyo nor
\* london in lower case raises an error, returns nothing and leaves
\* tokenized_btc_bricks and total_btc_value as they were before the call.
C7_UnsupportedLocationNoEffect ==
  (/\ client.op = "convert_btc_to_bricks"
   /\ Lower(client.location) \notin {"tokyo", "london"}) =>
    /\ client.error = "ValueError"
    /\ client.result = << >>
    /\ helix_bitcoin_bridge.tokenized_btc_bricks
         = client.pre[1].tokenized_btc_bricks
    /\ helix_bitcoin_bridge.total_btc_value = client.pre[1].total_btc_value
C7_Witness ==
  /\ client.op = "convert_btc_to_bricks"
  /\ client.location = "paris"
  /\ client.error = "ValueError"
  /\ helix_bitcoin_bridge.tokenized_btc_bricks > 0

\* C8: when a domain operation of the run_unified_operations group has
\* raised, the call as a whole ends with that one error and hands back no
\* result, not even the results of the operations that succeeded.
C8_FailFast ==
  (/\ frame.phase = "RunOperations" /\ Finished
   /\ frame.errors # << >>) =>
    /\ frame.pc = "failed"
    /\ frame.error \in Range(frame.errors)
    /\ frame.result = << >>
C8_Witness ==
  /\ frame.op = "run_unified_operations" /\ frame.pc = "failed"
  /\ frame.error = "IndexError"
  /\ Cardinality(DOMAIN frame.results) = Len(Operations) - 1

\* the key by which the result of the operation at position i is recognised
ResultKey(i) ==
  CASE i = 1 -> "prediction"
    [] i = 2 -> "token_id"
    [] i = 3 -> "architect_id"
    [] i = 4 -> "zakat_due"
    [] i = 5 -> "nft_id"
    [] i = 6 -> "rwa_asset"
ResultsInDeclarationOrder(r) ==
  /\ r.operations_completed = Len(Operations)
  /\ DOMAIN r.results = 1..Len(Operations)
  /\ \A i \in 1..Len(Operations) : ResultKey(i) \in DOMAIN r.results[i]
SixCountersUpByOne(pre) ==
  /\ tatras_ai_ml.predictions_count = pre.predictions_count + 1
  /\ real_estate.tokenized_properties = pre.tokenized_properties + 1
  /\ crm_analytics.analytics_processed = pre.analytics_processed + 1
  /\ zakat_automation.calculations_count = pre.calculations_count + 1
  /\ nft_achievement.nfts_minted = pre.nfts_minted + 1
  /\ auction_preparation.assets_prepared = pre.assets_prepared + 1

C10_SequentialSync ==
  LET syncing == {id \in DOMAIN heap : Status(id) = "syncing"}
      kinds(n) == [j \in 1..n |-> heap[frame.list[j]].layer_type]
  IN  /\ (frame.phase = "Sync" /\ frame.pc = "sleep") =>
            /\ frame.idx \in 1..Len(frame.list)
            /\ syncing = {frame.list[frame.idx]}
            /\ \A j \in 1..Len(frame.list) :
                  /\ j < frame.idx =>
                        heap[frame.list[j]].last_updated
                          > frame.pre.last_updated[j]
                  /\ j > frame.idx =>
                        heap[frame.list[j]].last_updated
                          = frame.pre.last_updated[j]
            /\ frame.synced = kinds(frame.idx - 1)
      /\ ~(frame.phase = "Sync" /\ frame.pc = "sleep") => syncing = {}
      /\ (frame.op = "sync_layers" /\ frame.pc = "done") =>
            /\ frame.result[1].synced_layers = kinds(Len(frame.list))
            /\ frame.result[1].synced_layers = LayerType \/ frame.list = << >>
C10_Witness ==
  /\ frame.op = "sync_layers" /\ frame.pc = "sleep"
  /\ frame.idx = 3
  /\ Len(frame.synced) = 2

\* every layer of the registry has been stamped by a sync cycle that ran to
\* its end (the clock leaves 0 only inside sync_all)
SyncCompleted ==
  /\ layers # << >>
  /\ \A i \in 1..Len(layers) : heap[layers[i]].last_updated > 0
\* every layer of the registry has been handed to deploy and no deploy group
\* is under way
DeployCompleted ==
  /\ layers # << >>
  /\ \A i \in 1..Len(layers) :
        layers[i] \in Range(deployment_engine.active_deployments)
  /\ ~(frame.phase = "Deploy" /\ frame.pc = "gather")

\* C11: once a sync cycle has completed every layer of the registry is
\* ACTIVE or SYNCING, and once the deploy phase has completed no layer of
\* the registry is PENDING or DEPLOYING.
C11_StatusAfterSyncAndDeploy ==
  /\ SyncCompleted =>
        \A i \in 1..Len(layers) : Status(layers[i]) \in {"active", "syncing"}
  /\ DeployCompleted =>
        \A i \in 1..Len(layers) :
          Status(layers[i]) \notin {"pending", "deploying"}
C11_Witness ==
  /\ frame.op = "sync_layers" /\ frame.pc = "done"
  /\ SyncCompleted /\ DeployCompleted

\* a step changes the status or the last_updated of an existing Layer
LayerFieldsChanged ==
  \E id \in DOMAIN heap :
    \/ heap'[id].status # heap[id].status
    \/ heap'[id].last_updated # heap[id].last_updated

\* C12: the status and last_updated of an existing Layer are changed by
\* sync_all of the deployment engine only: every step of deliver_batch, of
\* run_unified_operations, of update_dashboard (the run's Snapshot phase
\* included) and of get_status, and every step of deploy_perpetual, leaves
\* them as they were.
C12_OnlyEngineWritesLayers ==
  [][ /\ LayerFieldsChanged => (SyncStart \/ SyncWake)
      /\ ( \/ frame.phase \in {"Deploy", "Deliver", "RunOperations", "Snapshot"}
           \/ dashboard' # dashboard
           \/ client' # client ) => ~LayerFieldsChanged ]_vars
C12_Witness ==
  /\ frame.op = "start_main_infinite" /\ frame.pc = "done"
  /\ client.op = "get_status" /\ client.result[1].status = "operational"
  /\ \A i \in 1..Len(layers) : heap[layers[i]].last_updated > 0

\* C13: an artifact is generated undelivered; each delivery task sets the
\* flag of its own artifact, records it once at the end of the delivery
\* list and counts it once, so that while and after a batch is delivered
\* the artifacts recorded since the call started are exactly the delivered
\* ones of the batch, once each; and no later step resets the flag or
\* changes or removes a recorded artifact.
C13_DeliveredOnceNeverReset ==
  /\ [](\A k \in 1..Len(artifact_delivery.artifacts) :
          artifact_delivery.artifacts[k].delivered)
  /\ []((frame.phase = "Deliver" /\ frame.pc # "call") =>
          LET before == frame.pre.counters.delivery_count
              done == Len(frame.order)
          IN  /\ \A k \in 1..Len(frame.batch) :
                    frame.batch[k].delivered <=> k \notin frame.pending
              /\ \A j1, j2 \in 1..done :
                    frame.order[j1] = frame.order[j2] => j1 = j2
              /\ Len(artifact_delivery.artifacts) = before + done
              /\ artifact_delivery.delivery_count = before + done
              /\ \A j \in 1..done :
                    artifact_delivery.artifacts[before + j]
                      = frame.batch[frame.order[j]])
  /\ [][ /\ \A k \in 1..Len(artifact_delivery.artifacts) :
              /\ k <= Len(artifact_delivery.artifacts')
              /\ artifact_delivery.artifacts'[k] = artifact_delivery.artifacts[k]
        /\ (frame'.phase = "Deliver" /\ frame'.pc # "call") =>
              \A k \in 1..Len(frame.batch) :
                frame.batch[k].delivered => frame'.batch[k].delivered ]_vars
C13_Witness ==
  /\ frame.phase = "Deliver" /\ frame.pc = "gather"
  /\ frame.pending # {} /\ frame.order # << >>
  /\ ~InOrder(frame.order)
  /\ frame.pre.counters.delivery_count > 0

\* what get_dashboard_data must hand back, as data d, for the history h it
\* read: the sentinel exactly when h is empty, else the last entry of h
LatestOrNoData(d, h) ==
  /\ (d.status = "no_data") <=> (h = << >>)
  /\ h = << >> => d = [status |-> "no_data"]
  /\ h # << >> => /\ d.status = "operational"
                  /\ d.current_metrics = h[Len(h)]

\* C14: get_dashboard_data returns the no_data sentinel exactly when the
\* snapshot history is empty and otherwise the most recently appended
\* snapshot: this holds of the data every get_status call returned for the
\* history it read, and of the data the run's Snapshot phase returns right
\* after it appended its snapshot.
C14_LatestOrNoData ==
  /\ [](client.op = "get_status" =>
          LatestOrNoData(client.result[1].dashboard, client.pre[1]))
  /\ [][ (frame.phase = "Snapshot" /\ frame.pc = "call" /\ frame'.pc = "done")
          => LatestOrNoData(frame'.result[1].dashboard,
                            dashboard'.metrics_history) ]_vars
C14_Witness ==
  /\ client.op = "get_status" /\ client.pre[1] = << >>
  /\ client.result[1].dashboard.status = "no_data"
  /\ frame.op = "start_main_infinite" /\ frame.pc = "done"
  /\ frame.result[1].dashboard.current_metrics
       = dashboard.metrics_history[Len(dashboard.metrics_history)]

\* C15: the snapshot history is append-only and time-ascending: a step that
\* calls update_metrics (update_dashboard, by a monitoring task or by the
\* run's Snapshot phase) puts exactly one entry at the end, every other
\* step leaves the history alone, the entries already there keep their
\* place and their fields whatever the layer counters do afterwards, and
\* the timestamps never decrease along the history.
C15_HistoryAppendOnly ==
  /\ [][ LET h == dashboard.metrics_history
             h2 == dashboard'.metrics_history
         IN  /\ Len(h) <= Len(h2) /\ Len(h2) <= Len(h) + 1
             /\ \A k \in 1..Len(h) : h2[k] = h[k]
             /\ (Len(h2) = Len(h) + 1) <=> (UpdateDashboard \/ MainSnapshot)
       ]_vars
  /\ [](\A j, k \in 1..Len(dashboard.metrics_history) :
          j <= k => dashboard.metrics_history[j].timestamp
                      <= dashboard.metrics_history[k].timestamp)
C15_Witness ==
  /\ frame.op = "start_main_infinite" /\ frame.pc = "done"
  /\ Len(dashboard.metrics_history) = 2
  /\ dashboard.metrics_history[1].timestamp
       < dashboard.metrics_history[2].timestamp
  /\ dashboard.metrics_history[1].nft_minted < nft_achievement.nfts_minted

\* C16: whenever a snapshot is appended to the history, its nft_minted,
\* zakat_processed, properties_tokenized and ai_ml_predictions are the
\* values the layer objects hold at that moment, every earlier operation
\* counted, and its total_architects is 38000000.
C16_SnapshotReadsCurrentCounters ==
  [][ Len(dashboard'.metrics_history) = Len(dashboard.metrics_history) + 1 =>
        LET m == dashboard'.metrics_history[Len(dashboard'.metrics_history)]
        IN  /\ m.nft_minted = nft_achievement.nfts_minted
            /\ m.zakat_processed = zakat_automation.total_zakat_processed
            /\ m.properties_tokenized = real_estate.tokenized_properties
            /\ m.ai_ml_predictions = tatras_ai_ml.predictions_count
            /\ m.total_architects = 38000000 ]_vars
C16_Witness ==
  /\ Len(dashboard.metrics_history) = 2
  /\ dashboard.metrics_history[1].ai_ml_predictions = 0
  /\ dashboard.metrics_history[1].properties_tokenized = 0
  /\ dashboard.metrics_history[2].ai_ml_predictions = 1
  /\ dashboard.metrics_history[2].properties_tokenized = 1
  /\ dashboard.metrics_history[2].zakat_processed = 2500
  /\ dashboard.metrics_history[2].total_architects = 38000000

\* C17: no step of any operation lowers or resets predictions_count,
\* tokenized_properties, analytics_processed, calculations_count,
\* nfts_minted, assets_prepared or tokenized_btc_bricks.
C17_CountersMonotone ==
  [][ /\ tatras_ai_ml'.predictions_count >= tatras_ai_ml.predictions_count
      /\ real_estate'.tokenized_properties >= real_estate.tokenized_properties
      /\ crm_analytics'.analytics_processed >= crm_analytics.analytics_processed
      /\ zakat_automation'.calculations_count
           >= zakat_automation.calculations_count
      /\ nft_achievement'.nfts_minted >= nft_achievement.nfts_minted
      /\ auction_preparation'.assets_prepared
           >= auction_preparation.assets_prepared
      /\ helix_bitcoin_bridge'.tokenized_btc_bricks
           >= helix_bitcoin_bridge.tokenized_btc_bricks ]_vars
C17_Witness ==
  /\ frame.op = "initialize_all_layers" /\ frame.pc = "done"
  /\ tatras_ai_ml.predictions_count >= 1
  /\ auction_preparation.assets_prepared >= 1
  /\ helix_bitcoin_bridge.tokenized_btc_bricks >= 1

\* how often the instance id is among the first n active deployments
Deployments(id, n) ==
  Cardinality({j \in 1..n : deployment_engine.active_deployments[j] = id})

\* C18: every deploy(layer) call appends one entry to active_deployments
\* and adds 1 to deployment_count, whether or not the layer is in the list
\* already: while and after deploy_perpetual runs, the entries added since
\* the call started are the layers deployed so far, one entry per call, and
\* at the end every layer of the registry has one entry more than before,
\* so a layer deployed by two calls has two entries and has moved the
\* counter by 2.
C18_DeployNotIdempotent ==
  (frame.op = "deploy_perpetual" /\ frame.pc \in {"gather", "done"}) =>
    LET before == frame.pre.counters.deployment_count
        calls_made == Len(frame.order)
    IN  /\ deployment_engine.deployment_count = before + calls_made
        /\ Len(deployment_engine.active_deployments) = before + calls_made
        /\ \A j \in 1..calls_made :
              deployment_engine.active_deployments[before + j]
                = frame.list[frame.order[j]]
        /\ frame.pc = "done" =>
              \A i \in 1..Len(frame.list) :
                Deployments(frame.list[i], before + calls_made)
                  = Deployments(frame.list[i], before) + 1
C18_Witness ==
  /\ frame.op = "deploy_perpetual" /\ frame.pc = "done"
  /\ Len(layers) = Len(LayerType)
  /\ deployment_engine.deployment_count = 2 * Len(layers)
  /\ \A i \in 1..Len(layers) :
        Deployments(layers[i], deployment_engine.deployment_count) = 2

\* C19: the registry is assigned by initialize_all_layers only: no step of
\* the Deploy, Sync, Deliver, RunOperations and Snapshot phases, and no
\* update_dashboard or get_status call, adds, removes, replaces or reorders
\* a layer, and no instance changes its kind; so from the end of Initialize
\* to the end of the run the registry is the list initialize_all_layers
\* returned, one instance per kind.
C19_RegistryFixedAfterInit ==
  /\ [][ /\ layers' # layers => InitJoin
         /\ \A id \in DOMAIN heap :
               heap'[id].layer_type = heap[id].layer_type ]_vars
  /\ []((frame.op = "start_main_infinite" /\ PhaseIndex(frame.phase) > 1) =>
          /\ layers = frame.parts["Initialize"]
          /\ Len(layers) = Len(LayerType)
          /\ \A i \in 1..Len(layers) :
                heap[layers[i]].layer_type = LayerType[i])
C19_Witness ==
  /\ frame.op = "start_main_infinite" /\ frame.pc = "done"
  /\ Len(dashboard.metrics_history) = 2
  /\ artifact_delivery.delivery_count = RunCount
  /\ layers = frame.parts["Initialize"]
  /\ ~InOrder(frame.order)

\* the initialize_all_layers call (0 for the first) that built instance id
Generation(id) == (id - 1) \div Len(LayerType)

\* C20 as stated: in every reachable state each entry of the engine's
\* active-deployment list is the same instance as a layer of the registry.
C20_EngineEntriesInRegistry ==
  \A j \in 1..Len(deployment_engine.active_deployments) :
    deployment_engine.active_deployments[j] \in Range(layers)

\* C20 as amended: each entry of the engine's active-deployment list is a
\* Layer instance that initialize_all_layers built, never a copy; it is an
\* instance of the registry unless a later initialize_all_layers call has
\* replaced the registry since, in which case the engine still holds the
\* instance of the registry it was deployed from.  While sync_all works on
\* the registry the engine was deployed from, its changes show through the
\* engine's entries.
C20_EngineHoldsDeployedInstances ==
  /\ \A j \in 1..Len(deployment_engine.active_deployments) :
        LET id == deployment_engine.active_deployments[j]
        IN  /\ id \in DOMAIN heap
            /\ layers # << >>
            /\ Generation(id) <= Generation(layers[1])
            /\ Generation(id) = Generation(layers[1]) => id \in Range(layers)
  /\ (frame.phase = "Sync" /\ frame.pc = "sleep") =>
        \A j \in 1..Len(deployment_engine.active_deployments) :
          LET id == deployment_engine.active_deployments[j]
          IN  (Generation(id) = Generation(frame.list[1])
               /\ heap[id].layer_type = LayerType[frame.idx])
                => Status(id) = "syncing"
C20_Witness ==
  /\ frame.op = "sync_layers" /\ frame.pc = "sleep" /\ frame.idx = 2
  /\ Len(deployment_engine.active_deployments) = Len(LayerType)
  /\ \E j \in 1..Len(deployment_engine.active_deployments) :
        /\ deployment_engine.active_deployments[j] = layers[2]
        /\ Status(deployment_engine.active_deployments[j]) = "syncing"
  /\ \E j \in 1..Len(deployment_engine.active_deployments) :
        /\ deployment_engine.active_deployments[j] = layers[1]
        /\ heap[deployment_engine.active_deployments[j]].last_updated > 0

\* a finished deliver_artifacts_parallel call generated and delivered n
\* artifacts
Generated(n) ==
  /\ Len(frame.batch) = n
  /\ frame.result[1].delivered = n /\ frame.result[1].total = n
  /\ artifact_delivery.delivery_count = frame.pre.counters.delivery_count + n
\* a finished run delivered n artifacts
RunDelivered(n) ==
  /\ frame.parts["Deliver"].delivered = n /\ frame.parts["Deliver"].total = n
  /\ artifact_delivery.delivery_count = n
\* the client's call left the count out
CountOmitted ==
  /\ frame.op = "deliver_artifacts_parallel" /\ frame.pc = "done"
  /\ frame.count = DefaultCount

\* C21 as stated: deliver_artifacts_parallel called without a count
\* generates 20 artifacts, and a full run ends with the delivery counter at
\* 20.
C21_DefaultIsTwenty ==
  /\ CountOmitted => Generated(20)
  /\ (frame.op = "start_main_infinite" /\ frame.pc = "done") => RunDelivered(20)

\* C21 as amended: deliver_artifacts_parallel called without a count
\* generates 10 artifacts; start_main_infinite passes count=20, so a full
\* run on a fresh kernel ends with the delivery counter at 20.
C21_DefaultIsTenRunPassesTwenty ==
  /\ CountOmitted => Generated(10)
  /\ (frame.op = "start_main_infinite" /\ frame.pc = "done") => RunDelivered(20)
C21_Witness ==
  /\ CountOmitted /\ Generated(10)
  /\ is_running
  /\ frame.pre.counters.delivery_count = 20

(* ------------------------- calculate_zakat ----------------------------- *)
\* a <= b on bit sequences without leading zeros
RECURSIVE LessEq(_, _)
LessEq(a, b) ==
  IF Len(a) # Len(b) THEN Len(a) < Len(b)
  ELSE IF a = << >> THEN TRUE
  ELSE LET n == Len(a)
       IN  IF a[n] # b[n] THEN a[n] < b[n]
           ELSE LessEq(Canonical(SubSeq(a, 1, n - 1)),
                       Canonical(SubSeq(b, 1, n - 1)))

\* the float v written with a full significand of Precision bits
Widen(v) ==
  IF v.m = << >> \/ Len(v.m) >= Precision THEN v
  ELSE [m |-> ShiftLeft(v.m, Precision - Len(v.m)),
        e |-> v.e - (Precision - Len(v.m))]

\* v is within half a unit in the last place of w / 40, which every
\* binary64 nearest to 2.5% of w is:  |40 * m - w * 2^-e| <= 20
NearestToRateOf(v, w) ==
  LET u == Widen(v)
      lhs == MulSmall(u.m, 40)
      rhs == ShiftLeft(Bits(w), 0 - u.e)
  IN  IF u.m = << >> THEN w = 0
      ELSE /\ u.e <= 0
           /\ LessEq(lhs, AddBits(rhs, Bits(20)))
           /\ LessEq(rhs, AddBits(lhs, Bits(20)))

\* v is the number w / 40 itself:  40 * m * 2^e = w
ExactRateOf(v, w) ==
  IF v.m = << >> THEN w = 0
  ELSE v.e <= 0 /\ MulSmall(v.m, 40) = ShiftLeft(Bits(w), 0 - v.e)

ZakatCalled == client.op = "calculate_zakat"

\* C22 as stated: a calculate_zakat call returns zakat_due equal to 2.5% of
\* total_wealth as closely as a float can be (the float nearest to
\* total_wealth / 40, and 2500 for 100000), the ledger total_zakat_processed
\* is the old ledger plus zakat_due, and calculations_count is up by one.
C22_ExactlyTwoAndAHalfPercent ==
  ZakatCalled =>
    LET pre == client.pre[1]
        r == client.result[1]
    IN  /\ NearestToRateOf(r.zakat_due, r.wealth)
        /\ r.wealth = 100000 => ExactRateOf(r.zakat_due, r.wealth)
        /\ zakat_automation.total_zakat_processed
             = FloatAdd(pre.total_zakat_processed, r.zakat_due)
        /\ zakat_automation.calculations_count = pre.calculations_count + 1

\* the diverging state of C22: total_wealth 3 returns a float that is not
\* within half a unit in the last place of 0.075, although the ledger and
\* the counter moved as stated
C22_Witness ==
  /\ ZakatCalled
  /\ client.result[1].wealth = 3
  /\ ~NearestToRateOf(client.result[1].zakat_due, 3)
  /\ zakat_automation.total_zakat_processed
       = FloatAdd(client.pre[1].total_zakat_processed,
                  client.result[1].zakat_due)
  /\ zakat_automation.calculations_count
       = client.pre[1].calculations_count + 1

\* what holds of every calculate_zakat call: the amount is exactly 2.5% for
\* the wealths whose fortieth is a float (0, 40, 1000, 100000)
ZakatExactWhereRepresentable ==
  ZakatCalled =>
    LET r == client.result[1]
    IN  r.wealth \in {0, 40, 1000, 100000}
          => ExactRateOf(r.zakat_due, r.wealth)

(* ------------------------ termination of a run ------------------------- *)
\* start_main_infinite has returned: each of the six phases was carried out
\* exactly once (so Deploy and Sync each ran once) and one snapshot exists
RunFinished ==
  /\ frame.op = "start_main_infinite" /\ frame.pc = "done"
  /\ is_running
  /\ \A k \in 1..Len(PhaseOrder) : PhaseProgress(k) = PhaseWork(k)
  /\ DOMAIN frame.parts = {"Initialize", "Deploy", "Sync", "Deliver",
                           "RunOperations"}

\* C23: a Kernel run terminates: start_main_infinite eventually reaches,
\* and then stays in, the final state in which every phase has been carried
\* out exactly once (the deploy -> sync cycle once, no loop) and a snapshot
\* exists.
C23_RunTerminates == <>[]RunFinished
C23_Witness ==
  /\ RunFinished
  /\ Len(dashboard.metrics_history) = 1
  /\ deployment_engine.deployment_count = Len(LayerType)
  /\ \A id \in DOMAIN heap : heap[id].status = "active"

(* ----------------------------- load_state ------------------------------ *)
StateLoaded == client.op = "load_state"

\* C24: load_state on a missing state file returns the default object
\* {status: standby, mode: main-infinite, layers: {}, systems: {},
\* dashboard: {}} and raises nothing; on any other failure to read the file
\* it returns nothing and the failure reaches the caller unchanged; a
\* document that was read is returned as it is.
C24_DefaultOnlyWhenMissing ==
  StateLoaded =>
    LET file == client.pre[1]
    IN  /\ file.kind = "missing" =>
              /\ client.error = ""
              /\ client.result = << DefaultState >>
        /\ file.kind \in {"unreadable", "malformed"} =>
              /\ client.error = file.error
              /\ client.result = << >>
        /\ file.kind = "document" =>
              /\ client.error = ""
              /\ client.result = file.document
C24_Witness ==
  /\ StateLoaded
  /\ client.pre[1].kind = "missing"
  /\ client.error = ""
  /\ client.result[1].status = "standby"
  /\ client.result[1].layers = << >>
  /\ frame.op = "start_main_infinite" /\ ~is_running

(* ------------------------- status of the kernel ------------------------ *)
RunReturned == frame.op = "start_main_infinite" /\ frame.pc = "done"

\* C25: get_status reports "operational" exactly when start_main_infinite
\* has returned, which is when all six phases have been carried out, and
\* "standby" in every earlier state; a run ended by an exception leaves
\* the kernel in standby; once operational the kernel never goes back to
\* standby.
C25_OperationalOnlyAfterRun ==
  /\ [](is_running <=> RunReturned)
  /\ [](is_running =>
          \A k \in 1..Len(PhaseOrder) : PhaseProgress(k) = PhaseWork(k))
  /\ [](frame.pc = "failed" => StatusField = "standby")
  /\ [][GetStatus =>
          client'.result[1].status
            = IF RunReturned THEN "operational" ELSE "standby"]_vars
  /\ [][is_running => is_running']_vars
C25_Witness ==
  /\ client.op = "get_status"
  /\ client.result[1].status = "operational"
  /\ RunReturned
  /\ calls = MaxReads + 1

\* a run ended by an exception, read afterwards
InterruptedStandby ==
  /\ frame.pc = "failed" /\ frame.error = "CancelledError"
  /\ client.op = "get_status"
  /\ client.result[1].status = "standby"
  /\ \E id \in DOMAIN heap : heap[id].status = "syncing"

(* ------------------------ engine and delivery -------------------------- *)
\* sequence a is an initial part of sequence b
IsPrefix(a, b) == Len(a) <= Len(b) /\ SubSeq(b, 1, Len(a)) = a

\* C26: in every reachable state the engine's deployment_count equals the
\* length of its active_deployments list, and no step decreases either: the
\* counter only grows and the list only gains entries at its end.
C26_CountIsListLength ==
  /\ [](deployment_engine.deployment_count
          = Len(deployment_engine.active_deployments))
  /\ [][ /\ deployment_engine'.deployment_count
              >= deployment_engine.deployment_count
         /\ IsPrefix(deployment_engine.active_deployments,
                     deployment_engine'.active_deployments) ]_vars
C26_Witness ==
  /\ deployment_engine.deployment_count = 2 * Len(LayerType)
  /\ Len(deployment_engine.active_deployments) = 2 * Len(LayerType)
  /\ frame.op = "deploy_perpetual" /\ frame.pc = "done"

\* C27: in every reachable state the delivery system's delivery_count
\* equals the length of its artifact history, and every artifact of the
\* history has its delivered flag set.
C27_HistoryAllDelivered ==
  /\ artifact_delivery.delivery_count = Len(artifact_delivery.artifacts)
  /\ \A k \in 1..Len(artifact_delivery.artifacts) :
        artifact_delivery.artifacts[k].delivered
C27_Witness ==
  /\ frame.phase = "Deliver" /\ frame.pc = "gather"
  /\ frame.pending # {}
  /\ artifact_delivery.delivery_count > DefaultCount
  /\ Len(artifact_delivery.artifacts) = artifact_delivery.delivery_count

(* --------------------------- snapshot fields --------------------------- *)
Snapshots == dashboard.metrics_history
LastSnapshot == Snapshots[Len(Snapshots)]

\* C28: every snapshot in the history has total_artifacts = 0, whatever the
\* delivery counter was when the snapshot was taken.
C28_TotalArtifactsAlwaysZero ==
  /\ \A k \in 1..Len(Snapshots) : Snapshots[k].total_artifacts = 0
  /\ (frame.op = "start_main_infinite" /\ frame.pc = "done") =>
        frame.result[1].dashboard.current_metrics.total_artifacts = 0
C28_Witness ==
  /\ frame.op = "start_main_infinite" /\ frame.pc = "done"
  /\ artifact_delivery.delivery_count = RunCount
  /\ Len(artifact_delivery.artifacts) = RunCount
  /\ LastSnapshot.total_artifacts = 0
  /\ LastSnapshot.ai_ml_predictions = 1

\* C29: a snapshot's active_layers is the length of the kernel's layer list
\* when update_dashboard is called, whatever the status of the layers: a
\* snapshot taken while sync_all is suspended with a layer in SYNCING
\* counts that layer too.
C29_ActiveLayersIsListLength ==
  [][ (UpdateDashboard \/ MainSnapshot) =>
        /\ Len(dashboard'.metrics_history) = Len(Snapshots) + 1
        /\ dashboard'.metrics_history[Len(Snapshots) + 1].active_layers
             = Len(layers) ]_vars
C29_Witness ==
  /\ frame.phase = "Sync" /\ frame.pc = "sleep"
  /\ Len(Snapshots) = 1
  /\ LastSnapshot.active_layers = Len(LayerType)
  /\ LastSnapshot.timestamp = clock
  /\ \E i \in 1..Len(layers) : heap[layers[i]].status = "syncing"

(* --------------------- overlapping sync_all calls ---------------------- *)
KernelSyncDone == frame.op = "sync_layers" /\ frame.pc = "done"
PeerDone == client.op = "sync_all" /\ Peer.pc = "done"

\* C30: when two sync_all calls over the same layer list have both
\* completed, however they interleaved at their sleeps, every layer of the
\* list is ACTIVE, and each call reports every layer as synced.
C30_AllActiveAfterBoth ==
  (KernelSyncDone /\ PeerDone /\ Peer.list = frame.list) =>
    /\ \A i \in 1..Len(frame.list) : Status(frame.list[i]) = "active"
    /\ Len(frame.result[1].synced_layers) = Len(frame.list)
    /\ Len(client.result[1].synced_layers) = Len(frame.list)
\* both calls completed after overlapping, and the second one resumed at
\* least once to find the layer it was syncing already ACTIVE
C30_Witness ==
  /\ KernelSyncDone /\ PeerDone
  /\ Peer.list = frame.list /\ Len(frame.list) = Len(LayerType)
  /\ Peer.overlapped
  /\ Peer.early
  /\ \A i \in 1..Len(frame.list) : Status(frame.list[i]) = "active"

(* ------------------------ convert_btc_to_bricks ------------------------ *)
Converted == client.op = "convert_btc_to_bricks"

\* C31: a convert_btc_to_bricks call succeeds (returns an asset, raises
\* nothing) exactly when the lower-cased location is tokyo or london, and
\* each successful call adds exactly 1 to tokenized_btc_bricks and
\* btc_amount to total_btc_value; the asset carries the new brick number.
C31_SucceedsForTokyoAndLondon ==
  Converted =>
    LET pre == client.pre[1]
        ok == Lower(client.location) \in {"tokyo", "london"}
    IN  /\ ok <=> (client.error = "" /\ Len(client.result) = 1)
        /\ ~ok <=> (client.error = "ValueError" /\ client.result = << >>)
        /\ ok =>
             /\ helix_bitcoin_bridge.tokenized_btc_bricks
                  = pre.tokenized_btc_bricks + 1
             /\ helix_bitcoin_bridge.total_btc_value
                  = pre.total_btc_value + client.btc_amount
             /\ client.result[1].btc_amount = client.btc_amount
             /\ client.result[1].asset_id[2] = pre.tokenized_btc_bricks + 1
C31_Witness ==
  /\ Converted
  /\ client.location = "London"
  /\ client.error = ""
  /\ client.btc_amount = 3
  /\ client.pre[1].tokenized_btc_bricks = 1
  /\ helix_bitcoin_bridge.tokenized_btc_bricks = 2
  /\ helix_bitcoin_bridge.total_btc_value = client.pre[1].total_btc_value + 3

(* --------------------- calls on an empty registry ---------------------- *)
\* deploy_perpetual or sync_layers is under way on a kernel whose layer
\* list is still empty
OnEmptyRegistry ==
  /\ frame.op \in {"deploy_perpetual", "sync_layers"}
  /\ layers = << >>

\* C32: deploy_perpetual called before initialize_all_layers deploys
\* nothing: no step of the call changes anything but the call's own frame,
\* the deployment counter and the active-deployment list stay as they were
\* (0 and empty) and deployed_layers is 0; sync_layers on an empty registry
\* likewise changes nothing, takes no time and returns an empty synced list;
\* neither call raises.
C32_NothingOnEmptyRegistry ==
  /\ [][ (OnEmptyRegistry /\ ~Free) =>
           /\ UNCHANGED << domain, helix_bitcoin_bridge, systems, kernel,
                           clock, client, calls, reorders >>
           /\ frame'.pc # "failed" ]_vars
  /\ []( (OnEmptyRegistry /\ Finished) =>
           /\ frame.pc = "done"
           /\ Counters = frame.pre.counters
           /\ deployment_engine
                = [deployment_count |-> 0, active_deployments |-> << >>]
           /\ heap = << >>
           /\ frame.op = "deploy_perpetual" =>
                frame.result[1].deployed_layers = 0
           /\ frame.op = "sync_layers" =>
                /\ frame.result[1].synced_layers = << >>
                /\ frame.result[1].timestamp = clock )
C32_Witness ==
  /\ OnEmptyRegistry /\ frame.op = "deploy_perpetual" /\ frame.pc = "done"
  /\ frame.result[1].deployed_layers = 0
  /\ deployment_engine.deployment_count = 0
  /\ calls = MaxCalls

\* sync_layers returned on an empty registry
SyncedNothing ==
  /\ OnEmptyRegistry /\ frame.op = "sync_layers" /\ frame.pc = "done"
  /\ frame.result[1].synced_layers = << >>
=============================================================================
